---- MODULE Spec2Model ----
(***************************************************************************)
(* A model of the filestorage library: the StorageContainer configuration  *)
(* tree (storage_container.py), the save pipeline of the storage handlers  *)
(* (handler_base.py, filter_base.py, handlers/dummy.py) and the filename   *)
(* sanitiser (handler_base.py).                                            *)
(*                                                                         *)
(* Python objects are records of fields; an exception raised by an         *)
(* operation is recorded, with the operation, in the variable `last` (for  *)
(* the container operations) or `ret` (for the handler operations), which  *)
(* is what the caller of the operation observes.                           *)
(***************************************************************************)
EXTENDS Integers, Sequences, FiniteSets, TLC

\* ------------------------------------------------------------------ bounds

\* The number of StorageContainer objects of a tree, the root included.
MaxNodes == 3

\* The length of the filenames given to sanitize_filename.
MaxNameLen == 4

\* The length of a handler's filter list.
MaxFilters == 2

\* The number of files a handler stores.
MaxFiles == 3

\* The number of files stored through the folders of a container.
MaxFolderFiles == 2

\* The number of stores that the settings name, each the child of the one
\* before.
MaxStores == 2

\* The number of argument keys that the settings give a handler.
MaxArgs == 2

\* ------------------------------------------------------------- the values

\* The keys given to StorageContainer.__getitem__.
Keys == {"a", "b"}

\* The handler objects the configuration code has at hand.  h1 is the handler
\* that the variables h_class, h_filters, ... describe: a DummyHandler, whose
\* validation succeeds, unless the specification states another class.  h2 is
\* a NewStorageHandler (the handler template) without filters, whose
\* _validate raises FilestorageConfigError.
Handlers == {"h1", "h2"}

\* What a caller may assign to StorageContainer.handler: a handler object, or
\* a value that is no StorageHandlerBase (None, as config_utils assigns).
HandlerValues == Handlers \cup {"None"}

NodeIds == 0 .. (MaxNodes - 1)

Root == 0

NoNode == -1

\* No exception: the operation returned.
NoError == [type |-> "None", msg |-> "", at |-> <<>>]

\* A str is the sequence of its characters.  The characters of the filenames:
\* the dot, both path separators, a letter and a character that is neither
\* alphanumeric nor "." nor "_".
Chars == {".", "/", "\\", "a", "-"}

\* str.isalnum() on the characters of the model.
AlNum == {"a", "f", "p", "1", "2"}

\* Every str of at most MaxNameLen characters.
NameInputs == UNION {[1 .. k -> Chars] : k \in 0 .. MaxNameLen}

\* The filenames and the contents given to save_file and async_save_file.
SaveNames == {<<"f">>, <<".", "f", "/">>}

Datas == {"x", "y"}

\* The names given to exists and delete, which do not sanitize them: the names
\* a save can return.
StoredNames == {<<"f">>, <<"f", "_">>, <<"f", "-", "1">>}

\* The handler classes of the save pipeline: DummyHandler and
\* AsyncDummyHandler keep the files in a dict, NewStorageHandler (the handler
\* template) has a _save that returns None, LocalFileHandler and
\* AsyncLocalFileHandler keep the files in the directory base_path.
HandlerClasses == {"DummyHandler", "AsyncDummyHandler", "NewStorageHandler",
                   "LocalFileHandler", "AsyncLocalFileHandler"}

\* The subclasses of AsyncStorageHandlerBase.
AsyncClasses == {"AsyncDummyHandler", "AsyncLocalFileHandler"}

LocalClasses == {"LocalFileHandler", "AsyncLocalFileHandler"}

DummyClasses == {"DummyHandler", "AsyncDummyHandler"}

\* The filter classes: MockFilter(id_) appends its id_ to the filename,
\* FailedFilter raises RuntimeError; all inherit FilterBase.call and
\* FilterBase.async_call.
FilterClasses == {"MockFilter-1", "MockFilter-2", "FailedFilter"}

FilterLists == UNION {[1 .. k -> FilterClasses] : k \in 0 .. MaxFilters}

\* The path prefixes of a handler: none, or the folder "p".
PathPrefixes == {<<>>, << <<"p">> >>}

\* Optional[T]: <<>> is None, <<x>> is the value x.
None == <<>>

Some(x) == <<x>>

VARIABLES
    nnodes,          \* the number of StorageContainer objects constructed
    name,            \* StorageContainer._name, "None" for the root
    parent,          \* StorageContainer._parent, NoNode for the root
    children,        \* StorageContainer._children: the child ids, in insertion order
    handler,         \* StorageContainer._handler, "None" when unset
    do_not_use,      \* StorageContainer._do_not_use
    finalized,       \* StorageContainer._finalized
    handler_name,    \* StorageHandlerBase.handler_name of each handler object
    validate_calls,  \* the number of calls of each handler object's validate()
    last,            \* the last container operation and what its caller saw
    h_class,         \* the class of the handler of the save pipeline
    h_allow_sync,    \* AsyncStorageHandlerBase.allow_sync_methods
    h_filters,       \* StorageHandlerBase._filters
    h_path,          \* StorageHandlerBase._path
    h_auto_make_dir, \* LocalFileHandler.auto_make_dir
    h_aiofiles,      \* whether file.py could import aiofiles
    h_validated,     \* DummyHandler.validated
    files,           \* DummyHandler.files, or the files under base_path: the
                     \* url_path keys and their contents
    dirs,            \* the directories at and under base_path, "" being base_path
    created_dirs,    \* LocalFileHandler._created_dirs
    last_save,       \* DummyHandler.last_save
    last_delete,     \* DummyHandler.last_delete
    ret,             \* the last handler operation and what its caller saw
    s_in,            \* the argument of a function called on its own: the
                     \* filename given to sanitize_filename, the settings
                     \* given to get_handler
    s_out,           \* what the function returned, None before the call
    tasks            \* the async_save_file coroutines of the event loop: where
                     \* each one stands, its item and what it returned

treeVars == <<nnodes, name, parent, children, handler, do_not_use, finalized,
              handler_name, validate_calls, last>>

\* What the constructor of a handler sets and no operation changes.
handlerConfig == <<h_class, h_path, h_auto_make_dir, h_aiofiles>>

\* What the backend of a handler keeps.
handlerStore == <<files, dirs, created_dirs, last_save, last_delete>>

handlerVars == <<handlerConfig, h_allow_sync, h_filters, h_validated,
                 handlerStore, ret, tasks>>

sanitizeVars == <<s_in, s_out>>

vars == <<treeVars, handlerVars, sanitizeVars>>

Nodes == 0 .. (nnodes - 1)

\* ----------------------------------------------------- sanitize_filename

\* str.lstrip('.')
RECURSIVE lstrip_dots(_)
lstrip_dots(s) ==
    IF s # <<>> /\ Head(s) = "." THEN lstrip_dots(Tail(s)) ELSE s

\* clean_char: alphanumerics, "." and "_" are kept, the rest becomes "_".
clean_char(c) == IF c \in AlNum \/ c \in {".", "_"} THEN c ELSE "_"

\* sanitize_filename without the lstrip of the leading dots.
sanitize_filename_no_lstrip(filename) ==
    [i \in 1 .. Len(filename) |-> clean_char(filename[i])]

\* StorageHandlerBase.sanitize_filename
sanitize_filename(filename) ==
    LET stripped == lstrip_dots(filename)
    IN  [i \in 1 .. Len(stripped) |-> clean_char(stripped[i])]

SanitizeIdle == s_in = <<>> /\ s_out = None

SanitizeInputs == s_in \in NameInputs /\ s_out = None

\* handler.sanitize_filename(s_in)
Sanitize ==
    /\ s_out = None
    /\ s_out' = Some(sanitize_filename(s_in))
    /\ UNCHANGED <<s_in, treeVars, handlerVars>>

\* --------------------------------------------------------------- FileItem

\* "/".join(parts)
RECURSIVE join_slash(_)
join_slash(parts) ==
    IF Len(parts) = 0 THEN <<>>
    ELSE IF Len(parts) = 1 THEN parts[1]
    ELSE parts[1] \o <<"/">> \o join_slash(Tail(parts))

\* FileItem.url_path
url_path(item) == join_slash(Append(item.path, item.filename))

\* StorageHandlerBase.get_item(filename, data=data): the record of a file
\* under the handler's path prefix.
get_item(filename, data) ==
    [filename |-> filename, path |-> h_path, data |-> data]

\* ------------------------------------------------------------ FilterBase

\* The result of a call: the exception raised ("None": it returned) and the
\* FileItem returned.
Returned(item) == [raised |-> "None", item |-> item]

Raised(exc, item) == [raised |-> exc, item |-> item]

\* FilterBase.async_ok of the filter classes: FilterBase's default is False,
\* FailedFilter sets it.
filter_async_ok(f) == f = "FailedFilter"

\* The suffix a MockFilter appends.
filter_id(f) == IF f = "MockFilter-1" THEN <<"-", "1">> ELSE <<"-", "2">>

\* filter_._apply(*args) of the filter classes, each declared _apply(self, item).
filter_apply(f, args) ==
    IF Len(args) # 1 THEN Raised("TypeError", args[1])
    ELSE IF f = "FailedFilter" THEN Raised("RuntimeError", args[1])
    ELSE Returned([args[1] EXCEPT !.filename = @ \o filter_id(f)])

\* FilterBase.call(self, fileio, filename), called with the positional
\* arguments args: the call raises TypeError unless it is given both.
FilterBase_call(f, args) ==
    IF Len(args) # 2 THEN Raised("TypeError", args[1])
    ELSE filter_apply(f, args)

\* FilterBase.async_call(self, fileio, filename)
FilterBase_async_call(f, args) ==
    IF Len(args) # 2 THEN Raised("TypeError", args[1])
    ELSE IF ~filter_async_ok(f) THEN Raised("FilestorageConfigError", args[1])
    ELSE filter_apply(f, args)

\* ---------------------------------------------------- StorageHandlerBase

\* The filter loop that goes on to the next filter, with the item as it was,
\* when a filter raises.
RECURSIVE apply_filters_swallowing(_, _, _, _)
apply_filters_swallowing(mode, i, item, trace) ==
    IF i > Len(h_filters) THEN [raised |-> "None", item |-> item, trace |-> trace]
    ELSE LET r == IF mode = "sync" THEN FilterBase_call(h_filters[i], <<item>>)
                  ELSE FilterBase_async_call(h_filters[i], <<item>>)
             called == Append(trace, <<"call", i, "">>)
         IN  IF r.raised # "None"
             THEN apply_filters_swallowing(mode, i + 1, item,
                      Append(called, <<"raise", i, r.raised>>))
             ELSE apply_filters_swallowing(mode, i + 1, r.item, called)

\* for filter_ in self.filters: item = filter_.call(item), from the i-th
\* filter on (item = await filter_.async_call(item) in async_save_file).  Each
\* filter is called with the one argument item; an exception ends the loop.
\* The trace lists the calls made and the exception raised.
RECURSIVE apply_filters(_, _, _, _)
apply_filters(mode, i, item, trace) ==
    IF i > Len(h_filters) THEN [raised |-> "None", item |-> item, trace |-> trace]
    ELSE LET r == IF mode = "sync" THEN FilterBase_call(h_filters[i], <<item>>)
                  ELSE FilterBase_async_call(h_filters[i], <<item>>)
             called == Append(trace, <<"call", i, "">>)
         IN  IF r.raised # "None"
             THEN [raised |-> r.raised, item |-> item,
                   trace |-> Append(called, <<"raise", i, r.raised>>)]
             ELSE apply_filters(mode, i + 1, r.item, called)

\* What a backend operation did: the exception it raised or the value it
\* returned, and the files, directories and fields it left.
Backend(exc, value) ==
    [raised |-> exc, value |-> value, files |-> files, dirs |-> dirs,
     created_dirs |-> created_dirs, last_save |-> last_save,
     last_delete |-> last_delete]

\* dict assignment: self.files[item.url_path] = contents
files_set(item) ==
    {r \in files : r.key # url_path(item)}
        \cup {[key |-> url_path(item), contents |-> item.data]}

\* DummyHandler._save and AsyncDummyHandler._async_save: the file is stored
\* under its url_path, last_save is the item, the filename is returned.
dummy_save(item) ==
    [Backend("None", Some(item.filename)) EXCEPT
        !.files = files_set(item), !.last_save = Some(item)]

\* An _exists that reports every file as stored.
dummy_exists_always(item) == Backend("None", Some(TRUE))

\* DummyHandler._exists and AsyncDummyHandler._async_exists
dummy_exists(item) ==
    Backend("None", Some(\E r \in files : r.key = url_path(item)))

\* DummyHandler._delete and AsyncDummyHandler._async_delete:
\* del self.files[item.url_path] raises KeyError for a key the dict lacks.
dummy_delete(item) ==
    IF \E r \in files : r.key = url_path(item)
    THEN [Backend("None", None) EXCEPT
             !.files = {r \in files : r.key # url_path(item)},
             !.last_delete = Some(item)]
    ELSE Backend("KeyError", None)

\* ------------------------------------------------------ LocalFileHandler

\* The path of a directory below base_path, "" for base_path itself.
dir_key(path) == join_slash(path)

\* os.makedirs(local_path, exist_ok=True): the directory and its parents.
makedirs(path) == {dir_key(SubSeq(path, 1, k)) : k \in 0 .. Len(path)}

\* LocalFileHandler._exists and AsyncLocalFileHandler._async_exists, on the
\* files fs and directories ds: os.path.exists(self.local_path(item)), true
\* of a file and of a directory; an empty filename names the item's directory.
local_exists(item, fs, ds) ==
    \/ \E r \in fs : r.key = url_path(item)
    \/ (IF item.filename = <<>> THEN dir_key(item.path) ELSE url_path(item)) \in ds

\* os.path.splitext(filename) of a filename without separators: the
\* extension starts at the last dot that follows a character other than a dot.
splitext(filename) ==
    LET dots == {i \in 1 .. Len(filename) :
                    /\ filename[i] = "."
                    /\ \E j \in 1 .. (i - 1) : filename[j] # "."}
        d == CHOOSE i \in dots : \A j \in dots : j <= i
    IN  IF dots = {} THEN <<filename, <<>>>>
        ELSE <<SubSeq(filename, 1, d - 1), SubSeq(filename, d, Len(filename))>>

Digits == <<"0", "1", "2", "3", "4", "5", "6", "7", "8", "9">>

\* str(counter)
RECURSIVE decimal(_)
decimal(k) ==
    IF k < 10 THEN <<Digits[k + 1]>>
    ELSE decimal(k \div 10) \o <<Digits[(k % 10) + 1]>>

\* The loop of resolve_filename from counter k on: the first
\* basename-counter+ext that does not exist.  (The loop gives up at 1000000,
\* beyond MaxFiles files.)
RECURSIVE first_free(_, _, _, _, _)
first_free(item, k, fs, ds, parts) ==
    LET named == [item EXCEPT
                     !.filename = parts[1] \o <<"-">> \o decimal(k) \o parts[2]]
    IN  IF ~local_exists(named, fs, ds) THEN named
        ELSE first_free(item, k + 1, fs, ds, parts)

\* A resolve_filename that keeps the name of a file that exists.
resolve_filename_keeping(item, fs, ds) == item

\* LocalFileHandler.resolve_filename and
\* AsyncLocalFileHandler.async_resolve_filename
resolve_filename(item, fs, ds) ==
    IF ~local_exists(item, fs, ds) THEN item
    ELSE first_free(item, 1, fs, ds, splitext(item.filename))

\* LocalFileHandler._save (async = FALSE) and
\* AsyncLocalFileHandler._async_save (async = TRUE): make the directory when
\* auto_make_dir, which only make_dir records in _created_dirs, pick a free
\* name, and write the file, which open() refuses in a missing directory.
local_save(item, async) ==
    LET key == dir_key(item.path)
        make == h_auto_make_dir /\ key \notin created_dirs
        ds == IF make THEN dirs \cup makedirs(item.path) ELSE dirs
        cs == IF make /\ ~async THEN created_dirs \cup {key} ELSE created_dirs
        named == resolve_filename(item, files, ds)
    IN  IF key \notin ds
        THEN [Backend("FileNotFoundError", None) EXCEPT
                 !.dirs = ds, !.created_dirs = cs]
        ELSE [Backend("None", Some(named.filename)) EXCEPT
                 !.dirs = ds, !.created_dirs = cs, !.files = files_set(named)]

\* LocalFileHandler._delete and AsyncLocalFileHandler._async_delete:
\* os.remove, whose FileNotFoundError is dropped; on a directory it raises
\* another OSError.
local_delete(item) ==
    IF \E r \in files : r.key = url_path(item)
    THEN [Backend("None", None) EXCEPT
             !.files = {r \in files : r.key # url_path(item)}]
    ELSE IF local_exists(item, files, dirs) THEN Backend("OSError", None)
    ELSE Backend("None", None)

\* ------------------------------------------- the backends of the classes

\* The handler refuses the sync methods: an async class with
\* allow_sync_methods off.
sync_refused == h_class \in AsyncClasses /\ ~h_allow_sync

\* self._save(item) without the check of allow_sync_methods.
handler_save_unchecked(item) ==
    IF h_class \in DummyClasses THEN dummy_save(item)
    ELSE IF h_class \in LocalClasses THEN local_save(item, FALSE)
    ELSE Backend("None", None)

\* self._save(item) by class.  AsyncStorageHandlerBase._save and
\* AsyncLocalFileHandler._save raise RuntimeError when allow_sync_methods is
\* off; the first then runs _async_save, the second LocalFileHandler._save;
\* the template's _save is `pass`.
handler_save(item) ==
    IF sync_refused THEN Backend("RuntimeError", None)
    ELSE IF h_class \in DummyClasses THEN dummy_save(item)
    ELSE IF h_class \in LocalClasses THEN local_save(item, FALSE)
    ELSE Backend("None", None)

\* await self._async_save(item) of the async classes.
handler_async_save(item) ==
    IF h_class \in DummyClasses THEN dummy_save(item) ELSE local_save(item, TRUE)

\* self._exists(item) by class; the template's _exists is `pass`.
handler_exists(item) ==
    IF sync_refused THEN Backend("RuntimeError", None)
    ELSE IF h_class \in DummyClasses THEN dummy_exists(item)
    ELSE IF h_class \in LocalClasses
    THEN Backend("None", Some(local_exists(item, files, dirs)))
    ELSE Backend("None", None)

\* await self._async_exists(item) of the async classes.
handler_async_exists(item) ==
    IF h_class \in DummyClasses THEN dummy_exists(item)
    ELSE Backend("None", Some(local_exists(item, files, dirs)))

\* self._delete(item) by class; the template's _delete is `pass`.
handler_delete(item) ==
    IF sync_refused THEN Backend("RuntimeError", None)
    ELSE IF h_class \in DummyClasses THEN dummy_delete(item)
    ELSE IF h_class \in LocalClasses THEN local_delete(item)
    ELSE Backend("None", None)

\* await self._async_delete(item) of the async classes.
handler_async_delete(item) ==
    IF h_class \in DummyClasses THEN dummy_delete(item) ELSE local_delete(item)

\* -------------------------------------------------------------- validate

\* What validate did: the exception it raised, the calls of filter_.validate()
\* and self._validate() it made, and the fields it left.
Validation(exc, msg, trace) ==
    [raised |-> exc, msg |-> msg, trace |-> trace, validated |-> h_validated,
     allow_sync |-> h_allow_sync, dirs |-> dirs, created_dirs |-> created_dirs]

\* StorageHandlerBase.validate: filter_.validate() on each filter, which
\* FilterBase leaves to an empty _validate, then self._validate():
\* DummyHandler sets validated, the template raises.
base_validate ==
    LET trace == [i \in 1 .. Len(h_filters) |-> <<"filter.validate", i, "">>]
                     \o << <<"_validate", 0, "">> >>
    IN  IF h_class \in DummyClasses
        THEN [Validation("None", "", trace) EXCEPT !.validated = TRUE]
        ELSE Validation("FilestorageConfigError",
                        "This is a template, not a real handler!", trace)

\* AsyncStorageHandlerBase.validate: refuse a filter that is not async_ok,
\* then StorageHandlerBase.validate.
async_validate ==
    IF \E i \in 1 .. Len(h_filters) : ~filter_async_ok(h_filters[i])
    THEN Validation("FilestorageConfigError",
                    "cannot be used in asynchronous storage handler", <<>>)
    ELSE base_validate

\* LocalFileHandler.validate, which overrides StorageHandlerBase.validate
\* without calling it: make the handler's directory when auto_make_dir,
\* else require it.
local_validate ==
    LET key == dir_key(h_path)
    IN  IF h_auto_make_dir
        THEN IF key \in created_dirs THEN Validation("None", "", <<>>)
             ELSE [Validation("None", "", <<>>) EXCEPT
                      !.dirs = dirs \cup makedirs(h_path),
                      !.created_dirs = created_dirs \cup {key}]
        ELSE IF ~local_exists(get_item(<<>>, "None"), files, dirs)
        THEN Validation("FilestorageConfigError",
                        "Configured directory does not exist", <<>>)
        ELSE Validation("None", "", <<>>)

\* AsyncLocalFileHandler.validate: require aiofiles, turn allow_sync_methods
\* on, run LocalFileHandler.validate, and restore allow_sync_methods when
\* that returns.
async_local_validate ==
    IF ~h_aiofiles
    THEN Validation("FilestorageConfigError", "The aiofiles library is required",
                    <<>>)
    ELSE IF local_validate.raised # "None"
    THEN [local_validate EXCEPT !.allow_sync = TRUE]
    ELSE local_validate

\* handler.validate() by class.
handler_validate ==
    IF h_class = "AsyncLocalFileHandler" THEN async_local_validate
    ELSE IF h_class = "LocalFileHandler" THEN local_validate
    ELSE IF h_class = "AsyncDummyHandler" THEN async_validate
    ELSE base_validate

\* ------------------------------------------------------ StorageContainer

HandlerClass(h) == IF h = "h1" THEN h_class ELSE "NewStorageHandler"

\* StorageContainer.name: the keys from the root down to the node, which the
\* code renders as "['a']['b']".
RECURSIVE container_name(_)
container_name(n) ==
    LET p == IF parent[n] # NoNode THEN container_name(parent[n]) ELSE <<>>
    IN  IF name[n] = "None" THEN p ELSE Append(p, name[n])

ConfigError(msg, n) ==
    [type |-> "FilestorageConfigError", msg |-> msg, at |-> container_name(n)]

\* StorageContainer(): the root of a tree, as filestorage.store is built.
TreeInit ==
    /\ nnodes = 1
    /\ name = [n \in NodeIds |-> "None"]
    /\ parent = [n \in NodeIds |-> NoNode]
    /\ children = [n \in NodeIds |-> <<>>]
    /\ handler = [n \in NodeIds |-> "None"]
    /\ do_not_use = [n \in NodeIds |-> FALSE]
    /\ finalized = [n \in NodeIds |-> FALSE]
    /\ handler_name = [h \in Handlers |-> "None"]
    /\ validate_calls = [h \in Handlers |-> 0]
    /\ last = [op |-> "init", raised |-> NoError]

\* The handler setter without its check of do_not_use.
handler_setter_error_no_disabled_check(n, v) ==
    IF finalized[n] THEN ConfigError("handler: store already finalized!", n)
    ELSE IF handler[n] # "None" THEN ConfigError("handler: handler already set!", n)
    ELSE IF v \notin Handlers THEN ConfigError("handler: is not a StorageHandler", n)
    ELSE NoError

\* The checks of the handler setter, in the order of the code.
handler_setter_error(n, v) ==
    IF finalized[n] THEN ConfigError("handler: store already finalized!", n)
    ELSE IF do_not_use[n] THEN ConfigError("handler: do_not_use already set!", n)
    ELSE IF handler[n] # "None" THEN ConfigError("handler: handler already set!", n)
    ELSE IF v \notin Handlers THEN ConfigError("handler: is not a StorageHandler", n)
    ELSE NoError

\* store.handler = v
SetHandler(n, v) ==
    LET err == handler_setter_error(n, v)
    IN  /\ n \in Nodes
        /\ IF err = NoError
           THEN /\ handler_name' = [handler_name EXCEPT ![v] = name[n]]
                /\ handler' = [handler EXCEPT ![n] = v]
           ELSE UNCHANGED <<handler_name, handler>>
        /\ last' = [op |-> "set_handler", raised |-> err]
        /\ UNCHANGED <<handlerVars, sanitizeVars>>
        /\ UNCHANGED <<nnodes, name, parent, children, do_not_use, finalized,
                       validate_calls>>

\* set_do_not_use without its check of the handler.
set_do_not_use_error_no_handler_check(n) ==
    IF finalized[n]
    THEN ConfigError("set_do_not_use(): store already finalized!", n)
    ELSE NoError

\* The checks of set_do_not_use, in the order of the code.
set_do_not_use_error(n) ==
    IF finalized[n]
    THEN ConfigError("set_do_not_use(): store already finalized!", n)
    ELSE IF handler[n] # "None"
    THEN ConfigError("set_do_not_use(): a handler is already set!", n)
    ELSE NoError

\* store.set_do_not_use()
SetDoNotUse(n) ==
    LET err == set_do_not_use_error(n)
    IN  /\ n \in Nodes
        /\ do_not_use' = IF err = NoError THEN [do_not_use EXCEPT ![n] = TRUE]
                         ELSE do_not_use
        /\ last' = [op |-> "set_do_not_use", raised |-> err]
        /\ UNCHANGED <<handlerVars, sanitizeVars>>
        /\ UNCHANGED <<nnodes, name, parent, children, handler, finalized,
                       handler_name, validate_calls>>

\* What handler.validate() raises for the handlers of the tree: h1 validates
\* as its class does, the template's _validate raises.
handler_validate_error(h) ==
    IF h = "h1"
    THEN IF handler_validate.raised = "None" THEN NoError
         ELSE [type |-> handler_validate.raised, msg |-> handler_validate.msg,
               at |-> <<>>]
    ELSE [type |-> "FilestorageConfigError",
          msg |-> "This is a template, not a real handler!", at |-> <<>>]

\* finalize_config without its early return.
already_finalized_never(st, n) == FALSE

\* Whether finalize_config returns at once on a node: if self._finalized.
already_finalized(st, n) == st.finalized[n]

\* finalize_config on node n, from the state st = [finalized, calls, raised]
\* of the walk: the flag is set first, then a disabled node returns, a node
\* without a handler raises, and otherwise the handler is validated and the
\* children are finalized in the order of the dict; an exception ends the walk.
RECURSIVE finalize_config(_, _), finalize_children(_, _, _)
finalize_config(n, st) ==
    IF already_finalized(st, n) THEN st
    ELSE LET s1 == [st EXCEPT !.finalized[n] = TRUE]
         IN  IF do_not_use[n] THEN s1
             ELSE IF handler[n] = "None"
             THEN [s1 EXCEPT !.raised = ConfigError("No handler provided for store", n)]
             ELSE LET h == handler[n]
                      s2 == [s1 EXCEPT !.calls[h] = @ + 1]
                      err == handler_validate_error(h)
                  IN  IF err # NoError THEN [s2 EXCEPT !.raised = err]
                      ELSE finalize_children(children[n], 1, s2)

finalize_children(cs, i, st) ==
    IF i > Len(cs) \/ st.raised # NoError THEN st
    ELSE finalize_children(cs, i + 1, finalize_config(cs[i], st))

\* store.finalize_config()
FinalizeConfig(n) ==
    LET st == finalize_config(n, [finalized |-> finalized,
                                  calls |-> validate_calls,
                                  raised |-> NoError])
    IN  /\ n \in Nodes
        /\ finalized' = st.finalized
        /\ validate_calls' = st.calls
        /\ last' = [op |-> "finalize_config", raised |-> st.raised]
        /\ IF st.calls["h1"] > validate_calls["h1"]
           THEN /\ h_validated' = handler_validate.validated
                /\ h_allow_sync' = handler_validate.allow_sync
                /\ dirs' = handler_validate.dirs
                /\ created_dirs' = handler_validate.created_dirs
           ELSE UNCHANGED <<h_validated, h_allow_sync, dirs, created_dirs>>
        /\ UNCHANGED <<tasks, handlerConfig, h_filters, files, last_save, last_delete,
                       ret, sanitizeVars>>
        /\ UNCHANGED <<nnodes, name, parent, children, handler, do_not_use,
                       handler_name>>

\* dict lookup: the child of n stored under the key, or NoNode.
child_of(n, key) ==
    LET found == {i \in 1 .. Len(children[n]) : name[children[n][i]] = key}
    IN  IF found = {} THEN NoNode ELSE children[n][CHOOSE i \in found : TRUE]

\* store[key]: dict.setdefault(key, StorageContainer(name=key, parent=self)).
\* No state of the container is consulted: the lookup never raises.
GetItem(n, key) ==
    LET c == child_of(n, key)
    IN  /\ n \in Nodes
        /\ IF c # NoNode
           THEN /\ UNCHANGED <<nnodes, name, parent, children>>
                /\ last' = [op |-> "getitem", raised |-> NoError]
           ELSE /\ nnodes < MaxNodes
                /\ nnodes' = nnodes + 1
                /\ name' = [name EXCEPT ![nnodes] = key]
                /\ parent' = [parent EXCEPT ![nnodes] = n]
                /\ children' = [children EXCEPT ![n] = Append(@, nnodes)]
                /\ last' = [op |-> "getitem", raised |-> NoError]
        /\ UNCHANGED <<handlerVars, sanitizeVars>>
        /\ UNCHANGED <<handler, do_not_use, finalized, handler_name,
                       validate_calls>>


\* ------------------------------------------------ the handler's operations

\* What the caller of a handler operation saw: the exception raised and its
\* message, or the value returned; the calls the operation made; the record
\* it handed to the backend and what the backend returned; for an operation
\* of a folder, the container and the segments of the folder.
Ret(op, arg) ==
    [op |-> op, arg |-> arg, raised |-> "None", msg |-> "", value |-> None,
     trace |-> <<>>, saved |-> None, backend |-> None, folder |-> None]

\* The backend's files, directories and fields after an operation.
Commit(b) ==
    /\ files' = b.files
    /\ dirs' = b.dirs
    /\ created_dirs' = b.created_dirs
    /\ last_save' = b.last_save
    /\ last_delete' = b.last_delete

\* The coroutines an event loop runs at a time.
Tasks == {"t1", "t2"}

\* A coroutine that was not started; no coroutine was started.
NoTask == [pc |-> "idle", item |-> None, counter |-> 0, raised |-> "None",
           value |-> None]

NoTasks == [t \in Tasks |-> NoTask]

\* A handler of any class, with any filters and path prefix, and no file;
\* base_path may exist, with or without the directory of the path prefix.
HandlerInit ==
    /\ h_class \in HandlerClasses
    /\ h_allow_sync \in (IF h_class \in AsyncClasses THEN BOOLEAN ELSE {TRUE})
    /\ h_filters \in FilterLists
    /\ h_path \in PathPrefixes
    /\ h_auto_make_dir \in (IF h_class \in LocalClasses THEN BOOLEAN ELSE {FALSE})
    /\ h_aiofiles \in (IF h_class = "AsyncLocalFileHandler" THEN BOOLEAN ELSE {TRUE})
    /\ h_validated = FALSE
    /\ tasks = NoTasks
    /\ files = {}
    /\ dirs \in (IF h_class \in LocalClasses
                 THEN {{}, {dir_key(<<>>)}, makedirs(h_path)}
                 ELSE {{}})
    /\ created_dirs = {}
    /\ last_save = None
    /\ last_delete = None
    /\ ret = Ret("init", <<>>)

\* DummyHandler(): no filters, no path prefix.
HandlerIdle ==
    /\ h_class = "DummyHandler"
    /\ h_allow_sync = TRUE
    /\ h_filters = <<>>
    /\ h_path = <<>>
    /\ h_auto_make_dir = FALSE
    /\ h_aiofiles = TRUE
    /\ h_validated = FALSE
    /\ tasks = NoTasks
    /\ files = {}
    /\ dirs = {}
    /\ created_dirs = {}
    /\ last_save = None
    /\ last_delete = None
    /\ ret = Ret("init", <<>>)

\* handler.validate()
Validate ==
    LET v == handler_validate
    IN  /\ ret' = [Ret("validate", <<>>) EXCEPT
                      !.raised = v.raised, !.msg = v.msg, !.trace = v.trace]
        /\ h_validated' = v.validated
        /\ h_allow_sync' = v.allow_sync
        /\ dirs' = v.dirs
        /\ created_dirs' = v.created_dirs
        /\ UNCHANGED <<tasks, handlerConfig, h_filters, files, last_save, last_delete>>
        /\ UNCHANGED <<treeVars, sanitizeVars>>

\* handler.filters.append(f): the filters property hands out the list the
\* handler keeps, so a caller can extend it after construction.
AppendFilter(f) ==
    /\ Len(h_filters) < MaxFilters
    /\ h_filters' = Append(h_filters, f)
    /\ ret' = Ret("filters.append", <<>>)
    /\ UNCHANGED <<tasks, handlerConfig, h_allow_sync, h_validated, handlerStore>>
    /\ UNCHANGED <<treeVars, sanitizeVars>>

\* handler.save_file(filename, data): sanitize, build the item, run the
\* filters, return self._save(item).
SaveFile(filename, data) ==
    LET item == get_item(sanitize_filename(filename), data)
        p == apply_filters("sync", 1, item, <<>>)
        b == handler_save(p.item)
    IN  /\ Cardinality(files) < MaxFiles
        /\ UNCHANGED <<treeVars, sanitizeVars>>
        /\ UNCHANGED <<tasks, handlerConfig, h_allow_sync, h_filters, h_validated>>
        /\ IF p.raised # "None"
           THEN /\ ret' = [Ret("save_file", filename) EXCEPT
                              !.raised = p.raised, !.trace = p.trace]
                /\ UNCHANGED handlerStore
           ELSE /\ ret' = [Ret("save_file", filename) EXCEPT
                              !.raised = b.raised, !.value = b.value,
                              !.trace = Append(p.trace, <<"_save", 0, "">>),
                              !.saved = Some(p.item), !.backend = b.value]
                /\ Commit(b)

\* await handler.async_save_file(filename, data), of the async classes: the
\* filename _async_save returns, or else the sanitized filename.
AsyncSaveFile(filename, data) ==
    LET sanitized == sanitize_filename(filename)
        item == get_item(sanitized, data)
        p == apply_filters("async", 1, item, <<>>)
        b == handler_async_save(p.item)
    IN  /\ h_class \in AsyncClasses
        /\ Cardinality(files) < MaxFiles
        /\ UNCHANGED <<treeVars, sanitizeVars>>
        /\ UNCHANGED <<tasks, handlerConfig, h_allow_sync, h_filters, h_validated>>
        /\ IF p.raised # "None"
           THEN /\ ret' = [Ret("async_save_file", filename) EXCEPT
                              !.raised = p.raised, !.trace = p.trace]
                /\ UNCHANGED handlerStore
           ELSE /\ ret' = [Ret("async_save_file", filename) EXCEPT
                              !.raised = b.raised,
                              !.value = IF b.raised # "None" THEN None
                                        ELSE IF b.value # None THEN b.value
                                        ELSE Some(sanitized),
                              !.trace = Append(p.trace, <<"_save", 0, "">>),
                              !.saved = Some(p.item), !.backend = b.value]
                /\ Commit(b)

\* A handler operation that builds the item of a filename and hands it to
\* one backend method, whose outcome b it passes on.
BackendCall(op, filename, event, b) ==
    /\ ret' = [Ret(op, filename) EXCEPT
                  !.raised = b.raised, !.value = b.value,
                  !.trace = << <<event, 0, "">> >>,
                  !.saved = Some(get_item(filename, "None")),
                  !.backend = b.value]
    /\ Commit(b)
    /\ UNCHANGED <<tasks, handlerConfig, h_allow_sync, h_filters, h_validated>>
    /\ UNCHANGED <<treeVars, sanitizeVars>>

\* handler.exists(filename)
Exists(filename) ==
    /\ h_class \in HandlerClasses
    /\ BackendCall("exists", filename, "_exists",
                   handler_exists(get_item(filename, "None")))

\* await handler.async_exists(filename), of the async classes.
AsyncExists(filename) ==
    /\ h_class \in AsyncClasses
    /\ BackendCall("async_exists", filename, "_async_exists",
                   handler_async_exists(get_item(filename, "None")))

\* handler.delete(filename)
Delete(filename) ==
    /\ h_class \in HandlerClasses
    /\ BackendCall("delete", filename, "_delete",
                   handler_delete(get_item(filename, "None")))

\* await handler.async_delete(filename), of the async classes.
AsyncDelete(filename) ==
    /\ h_class \in AsyncClasses
    /\ BackendCall("async_delete", filename, "_async_delete",
                   handler_async_delete(get_item(filename, "None")))

\* ---------------------------------- async_save_file, one await at a time

\* async_resolve_filename: the name of the item, then basename-counter.ext.
resolve_candidate(item, counter) ==
    IF counter = 0 THEN item
    ELSE LET parts == splitext(item.filename)
         IN  [item EXCEPT
                 !.filename = parts[1] \o <<"-">> \o decimal(counter) \o parts[2]]

\* The steps of the coroutines leave the tree, the handler's fields and the
\* record of the last operation alone.
TaskFrame ==
    UNCHANGED <<treeVars, sanitizeVars, handlerConfig, h_allow_sync, h_filters,
                h_validated, created_dirs, last_save, last_delete, ret>>

\* The coroutine t starts handler.async_save_file(filename, data) on an
\* AsyncLocalFileHandler and runs to the first stat of
\* async_resolve_filename: the filters, then async_make_dir when
\* auto_make_dir.
AsyncSaveStart(t, filename, data) ==
    LET item == get_item(sanitize_filename(filename), data)
        p == apply_filters("async", 1, item, <<>>)
        key == dir_key(p.item.path)
    IN  /\ h_class = "AsyncLocalFileHandler"
        /\ tasks[t].pc = "idle"
        /\ IF p.raised # "None"
           THEN /\ tasks' = [tasks EXCEPT ![t] =
                                [NoTask EXCEPT !.pc = "done", !.raised = p.raised]]
                /\ UNCHANGED dirs
           ELSE /\ tasks' = [tasks EXCEPT ![t] =
                                [NoTask EXCEPT !.pc = "resolve", !.item = Some(p.item)]]
                /\ dirs' = IF h_auto_make_dir /\ key \notin created_dirs
                           THEN dirs \cup makedirs(p.item.path) ELSE dirs
        /\ UNCHANGED files
        /\ TaskFrame

\* await self._async_exists(item) in async_resolve_filename returns to the
\* coroutine t: a free name ends the loop, a taken one goes on to the next
\* counter.
AsyncResolveStep(t) ==
    LET candidate == resolve_candidate(tasks[t].item[1], tasks[t].counter)
    IN  /\ tasks[t].pc = "resolve"
        /\ tasks' = [tasks EXCEPT ![t] =
              IF ~local_exists(candidate, files, dirs)
              THEN [@ EXCEPT !.pc = "open", !.item = Some(candidate)]
              ELSE [@ EXCEPT !.counter = @ + 1]]
        /\ UNCHANGED <<files, dirs>>
        /\ TaskFrame

\* aiofiles.open(self.local_path(item), 'wb') returns to the coroutine t:
\* the file is there and empty, or open() raised for the missing directory.
AsyncOpenStep(t) ==
    LET item == tasks[t].item[1]
    IN  /\ tasks[t].pc = "open"
        /\ IF dir_key(item.path) \notin dirs
           THEN /\ tasks' = [tasks EXCEPT ![t] =
                                [@ EXCEPT !.pc = "done", !.raised = "FileNotFoundError"]]
                /\ UNCHANGED files
           ELSE /\ tasks' = [tasks EXCEPT ![t] = [@ EXCEPT !.pc = "write"]]
                /\ files' = files_set([item EXCEPT !.data = ""])
        /\ UNCHANGED dirs
        /\ TaskFrame

\* The chunks of the data are written and the coroutine t returns
\* item.filename.
AsyncWriteStep(t) ==
    LET item == tasks[t].item[1]
    IN  /\ tasks[t].pc = "write"
        /\ tasks' = [tasks EXCEPT ![t] =
                        [@ EXCEPT !.pc = "done", !.value = Some(item.filename)]]
        /\ files' = files_set(item)
        /\ UNCHANGED dirs
        /\ TaskFrame

\* ----------------------------------------------------------- config_utils

\* The values of the settings' handler keys: the spellings of none, the
\* names of the two handler classes, and a name that cannot be imported.
NoneNames == {"None", "none", "NONE"}

ClassNames == {"DummyHandler", "filestorage.handlers._template.NewStorageHandler"}

HandlerSettings == NoneNames \cup ClassNames \cup {"NoSuchHandler"}

\* The settings have keys of a store but none for its handler.
NoKey == "<no key>"

\* The settings under the prefix, as get_keys_from nests them: the value of
\* store.handler, of store['a'].handler, and so on, as far as the settings
\* name stores; <<>> for settings without a key under the
\* prefix.  get_handler builds a new handler object for each name, and the
\* model has one object of each class, so a class is named at most once.
Settings ==
    {s \in UNION {[1 .. k -> HandlerSettings \cup {NoKey}] : k \in 0 .. MaxStores} :
        \A i, j \in 1 .. Len(s) : (s[i] \in ClassNames /\ s[i] = s[j]) => i = j}

\* str.lower() of the values of the handler keys.
lower(v) == IF v \in NoneNames THEN "none" ELSE v

\* try_import of a handler name and handler_cls(): the handler object, or
\* "None" when the import fails.
get_handler(v) ==
    IF v = "DummyHandler" THEN "h1"
    ELSE IF v = "filestorage.handlers._template.NewStorageHandler" THEN "h2"
    ELSE "None"

\* The key of the sub-store of the store of depth i of the settings.
sub_store(i) == IF i = 1 THEN "a" ELSE "b"

\* The keys of the store of depth i.
store_keys(i) == [j \in 1 .. (i - 1) |-> sub_store(j)]

\* The tree during setup_store: the fields setup_store changes, and the
\* exception that ended it.
TreeState ==
    [nnodes |-> nnodes, name |-> name, parent |-> parent, children |-> children,
     handler |-> handler, do_not_use |-> do_not_use,
     handler_name |-> handler_name, raised |-> NoError]

SettingsError(msg, i) ==
    [type |-> "FilestorageConfigError", msg |-> msg, at |-> store_keys(i)]

\* store.handler = v in setup_store and setup_from_settings, v a handler
\* object or None: the checks of the setter, then the assignment.
assign_handler(n, i, v, st) ==
    IF finalized[n]
    THEN [st EXCEPT !.raised = SettingsError("handler: store already finalized!", i)]
    ELSE IF st.do_not_use[n]
    THEN [st EXCEPT !.raised = SettingsError("handler: do_not_use already set!", i)]
    ELSE IF st.handler[n] # "None"
    THEN [st EXCEPT !.raised = SettingsError("handler: handler already set!", i)]
    ELSE IF v \notin Handlers
    THEN [st EXCEPT !.raised = SettingsError("handler: is not a StorageHandler", i)]
    ELSE [st EXCEPT !.handler[n] = v, !.handler_name[v] = st.name[n]]

\* store[key] during setup_store: the child under the key, made if missing.
get_sub_store(n, key, st) ==
    LET found == {j \in 1 .. Len(st.children[n]) : st.name[st.children[n][j]] = key}
    IN  IF found # {}
        THEN [node |-> st.children[n][CHOOSE j \in found : TRUE], st |-> st]
        ELSE [node |-> st.nnodes,
              st |-> [st EXCEPT !.nnodes = @ + 1,
                                !.name[st.nnodes] = key,
                                !.parent[st.nnodes] = n,
                                !.children[n] = Append(@, st.nnodes)]]

\* setup_store on the store n of depth i of the settings s: read the handler
\* key, build the handler unless the value is none in any case, assign
\* store.handler, and set up the sub-store.  An exception ends the setup
\* and leaves what was assigned before.
RECURSIVE setup_store(_, _, _, _)
setup_store(n, i, s, st) ==
    IF s[i] = NoKey
    THEN [st EXCEPT !.raised = SettingsError("Pyramid settings has no key for handler", i)]
    ELSE IF lower(s[i]) # "none" /\ get_handler(s[i]) = "None"
    THEN [st EXCEPT !.raised = SettingsError("Pyramid settings bad value for handler", i)]
    ELSE LET v == IF lower(s[i]) = "none" THEN "None" ELSE get_handler(s[i])
             s1 == assign_handler(n, i, v, st)
             sub == get_sub_store(n, sub_store(i), s1)
         IN  IF s1.raised # NoError \/ i = Len(s) THEN s1
             ELSE setup_store(sub.node, i + 1, s, sub.st)

\* setup_from_settings(settings, store): set the store up when the settings
\* have keys under the prefix and return True; otherwise assign
\* store.handler = None and return False.
setup_from_settings(s) ==
    IF s # <<>> THEN setup_store(Root, 1, s, TreeState)
    ELSE assign_handler(Root, 1, "None", TreeState)

\* setup_from_settings(settings, store)
SetupFromSettings(s) ==
    LET st == setup_from_settings(s)
    IN  /\ s \in Settings
        /\ nnodes' = st.nnodes
        /\ name' = st.name
        /\ parent' = st.parent
        /\ children' = st.children
        /\ handler' = st.handler
        /\ do_not_use' = st.do_not_use
        /\ handler_name' = st.handler_name
        /\ last' = [op |-> "setup_from_settings", raised |-> st.raised]
        /\ ret' = [Ret("setup_from_settings", s) EXCEPT
                      !.raised = st.raised.type, !.msg = st.raised.msg,
                      !.value = IF st.raised # NoError THEN None ELSE Some(s # <<>>)]
        /\ UNCHANGED <<finalized, validate_calls>>
        /\ UNCHANGED <<tasks, handlerConfig, h_allow_sync, h_filters, h_validated,
                       handlerStore, sanitizeVars>>

\* ------------------------------------- config_utils: handlers and filters

\* What a function of config_utils did: the exception it raised, the key
\* path that the exception's message holds (None: the message holds none,
\* or the exception is not a FilestorageConfigError), or the value returned.
Decoded(v) == [raised |-> "None", key |-> None, value |-> Some(v)]

Failed(exc, key) == [raised |-> exc, key |-> key, value |-> None]

\* The values of the argument keys, as set_nested_value strips them: the
\* empty string, digits, a plain and a quoted string, a list literal and a
\* text in brackets that is no literal.
ArgStrings ==
    {<<>>, <<"5">>, <<"u">>, <<"'", "u", "'">>,
     <<"[", "'", "a", "'", "]">>, <<"[", "1", ",", ",", "]">>}

\* The texts that eval(value, {}, {}) evaluates.
ValidLiterals == {<<"[", "'", "a", "'", "]">>}

\* The dict that get_keys_from builds for an argument key: the value of the
\* key (under None), or only keys nested under it.
ArgDicts == {[value |-> Some(s)] : s \in ArgStrings} \cup {[value |-> None]}

\* unquote
unquote(v) ==
    IF v = <<>> THEN Failed("IndexError", None)
    ELSE IF v[1] \in {"'", "\""} /\ v[1] = v[Len(v)]
    THEN Decoded([type |-> "str", v |-> SubSeq(v, 2, Len(v) - 1)])
    ELSE Decoded([type |-> "str", v |-> v])

\* str.isdigit()
isdigit(v) ==
    v # <<>> /\ \A i \in 1 .. Len(v) : \E d \in 1 .. Len(Digits) : v[i] = Digits[d]

\* decode_kwarg of the dict d of an argument key: pop the value, evaluate a
\* list, set or dict literal, convert digits, unquote anything else.
decode_kwarg(d) ==
    IF d.value = None THEN Failed("ValueError", None)
    ELSE LET v == d.value[1]
         IN  IF v # <<>> /\ (\/ v[1] = "[" /\ v[Len(v)] = "]"
                             \/ v[1] = "{" /\ v[Len(v)] = "}")
             THEN IF v \in ValidLiterals THEN Decoded([type |-> "list", v |-> v])
                  ELSE Failed("FilestorageConfigError", None)
             ELSE IF isdigit(v) THEN Decoded([type |-> "int", v |-> v])
             ELSE unquote(v)

\* The filter classes that filestorage.filters exports.
FilterNames == {"RandomizeFilename", "ValidateExtension"}

\* The dicts of the filters[N] keys: the class name (None: the settings have
\* only keys under filters[N]) and the extensions argument (None: absent).
FilterDicts ==
    {[name |-> Some("RandomizeFilename"), extensions |-> None],
     [name |-> Some("RandomizeFilename"), extensions |-> Some([value |-> Some(<<"u">>)])],
     [name |-> Some("ValidateExtension"), extensions |-> None],
     [name |-> Some("ValidateExtension"),
      extensions |-> Some([value |-> Some(<<"[", "'", "a", "'", "]">>)])],
     [name |-> Some("ValidateExtension"), extensions |-> Some([value |-> Some(<<>>)])],
     [name |-> Some("NoSuchFilter"), extensions |-> None],
     [name |-> None, extensions |-> Some([value |-> Some(<<"u">>)])]}

\* filter_cls(**kwargs): RandomizeFilename takes name_generator only,
\* ValidateExtension needs extensions, which it iterates.
filter_init_raises(cls, kwargs) ==
    IF cls = "RandomizeFilename" THEN kwargs # None
    ELSE kwargs = None \/ kwargs[1].type = "int"

\* get_filter: pop the class name, import it, decode the arguments, build
\* the filter.
get_filter(key_prefix, fd) ==
    IF fd.name = None THEN Failed("KeyError", None)
    ELSE IF fd.name[1] \notin FilterNames
    THEN Failed("FilestorageConfigError", Some(key_prefix))
    ELSE LET kw == IF fd.extensions = None THEN Decoded(None)
                   ELSE decode_kwarg(fd.extensions[1])
             kwargs == IF fd.extensions = None THEN None ELSE kw.value
         IN  IF kw.raised # "None" THEN kw
             ELSE IF filter_init_raises(fd.name[1], kwargs)
             THEN Failed("FilestorageConfigError", Some(key_prefix))
             ELSE Decoded([cls |-> fd.name[1], kwargs |-> kwargs])

\* The keys under filters: "[", a number or a letter, "]".
FilterRefs ==
    {<<"[", "0", "]">>, <<"[", "2", "]">>, <<"[", "1", "0", "]">>,
     <<"[", "0", "0", "]">>, <<"[", "a", "]">>}

\* str.lstrip('[') and str.rstrip(']')
RECURSIVE lstrip_bracket(_), rstrip_bracket(_)
lstrip_bracket(s) ==
    IF s # <<>> /\ Head(s) = "[" THEN lstrip_bracket(Tail(s)) ELSE s

rstrip_bracket(s) ==
    IF s # <<>> /\ s[Len(s)] = "]" THEN rstrip_bracket(SubSeq(s, 1, Len(s) - 1))
    ELSE s

\* int(s) of a string of digits.
RECURSIVE int_of(_)
int_of(s) ==
    IF s = <<>> THEN 0
    ELSE 10 * int_of(SubSeq(s, 1, Len(s) - 1))
            + (CHOOSE d \in 0 .. 9 : Digits[d + 1] = s[Len(s)])

\* filters.sort() on the (filter_id, filter) tuples: the tuple goes before
\* the first tuple of a greater id; tuples of one id compare their filters,
\* which raises TypeError.
RECURSIVE sort_insert(_, _, _)
sort_insert(sorted, pair, i) ==
    IF i > Len(sorted) THEN [raised |-> "None", list |-> Append(sorted, pair)]
    ELSE IF pair[1] = sorted[i][1] THEN [raised |-> "TypeError", list |-> sorted]
    ELSE IF pair[1] < sorted[i][1]
    THEN [raised |-> "None",
          list |-> SubSeq(sorted, 1, i - 1) \o <<pair>> \o SubSeq(sorted, i, Len(sorted))]
    ELSE sort_insert(sorted, pair, i + 1)

RECURSIVE sort_pairs(_, _, _)
sort_pairs(pairs, i, sorted) ==
    IF i > Len(pairs) THEN [raised |-> "None", list |-> sorted]
    ELSE LET r == sort_insert(sorted, pairs[i], 1)
         IN  IF r.raised # "None" THEN r ELSE sort_pairs(pairs, i + 1, r.list)

\* A get_all_filters that leaves the filters in the order of the settings.
RECURSIVE get_all_filters_unsorted(_, _, _, _)
get_all_filters_unsorted(key_prefix, entries, i, pairs) ==
    IF i > Len(entries)
    THEN Decoded([j \in 1 .. Len(pairs) |-> pairs[j][2]])
    ELSE LET ref == entries[i][1]
             digits == rstrip_bracket(lstrip_bracket(ref))
             f == get_filter(key_prefix \o <<"filters", ref>>, entries[i][2])
         IN  IF ~isdigit(digits)
             THEN Failed("FilestorageConfigError", Some(Append(key_prefix, ref)))
             ELSE IF f.raised # "None" THEN f
             ELSE get_all_filters_unsorted(key_prefix, entries, i + 1,
                      Append(pairs, <<int_of(digits), f.value[1]>>))

\* get_all_filters from the i-th entry on: the index of each key as an int,
\* its filter, and at the end the filters sorted by index.  The message for
\* a bad index names key_prefix and the key, without ".filters".
RECURSIVE get_all_filters(_, _, _, _)
get_all_filters(key_prefix, entries, i, pairs) ==
    IF i > Len(entries)
    THEN LET s == sort_pairs(pairs, 1, <<>>)
         IN  IF s.raised # "None" THEN Failed(s.raised, None)
             ELSE Decoded([j \in 1 .. Len(s.list) |-> s.list[j][2]])
    ELSE LET ref == entries[i][1]
             digits == rstrip_bracket(lstrip_bracket(ref))
             f == get_filter(key_prefix \o <<"filters", ref>>, entries[i][2])
         IN  IF ~isdigit(digits)
             THEN Failed("FilestorageConfigError", Some(Append(key_prefix, ref)))
             ELSE IF f.raised # "None" THEN f
             ELSE get_all_filters(key_prefix, entries, i + 1,
                      Append(pairs, <<int_of(digits), f.value[1]>>))

\* The handler names of the settings and the argument keys.
HandlerNames == {"DummyHandler", "LocalFileHandler", "NoSuchHandler"}

ArgKeys == {"base_url", "base_path", "bogus"}

\* get_init_properties(handler_cls, StorageHandlerBase)
valid_args(cls) ==
    IF cls = "LocalFileHandler"
    THEN {"base_path", "auto_make_dir", "base_url", "filters", "path"}
    ELSE {"base_url", "filters", "path"}

\* The loop of get_handler over the argument keys, from the i-th on.
RECURSIVE get_kwargs(_, _, _, _)
get_kwargs(key, hs, i, kwargs) ==
    IF i > Len(hs.args) THEN Decoded(kwargs)
    ELSE LET k == hs.args[i][1]
             v == decode_kwarg(hs.args[i][2])
         IN  IF k \notin valid_args(hs.name)
             THEN Failed("FilestorageConfigError", Some(Append(key, k)))
             ELSE IF v.raised # "None" THEN v
             ELSE get_kwargs(key, hs, i + 1, Append(kwargs, <<k, v.value[1]>>))

\* get_handler(key_prefix, settings_dict) on the dict hs of a handler key:
\* import the class, decode the arguments in the order of the dict (here the
\* argument keys, then filters), build the handler.  LocalFileHandler needs
\* base_path.
get_handler_from(key_prefix, hs) ==
    LET key == Append(key_prefix, "handler")
        kw == get_kwargs(key, hs, 1, <<>>)
        fs == IF hs.filters = None THEN Decoded(<<>>)
              ELSE get_all_filters(key, hs.filters[1], 1, <<>>)
    IN  IF hs.name \notin {"DummyHandler", "LocalFileHandler"}
        THEN Failed("FilestorageConfigError", Some(key))
        ELSE IF kw.raised # "None" THEN kw
        ELSE IF fs.raised # "None" THEN fs
        ELSE IF hs.name = "LocalFileHandler"
                /\ \A j \in 1 .. Len(kw.value[1]) : kw.value[1][j][1] # "base_path"
        THEN Failed("FilestorageConfigError", Some(key))
        ELSE Decoded([cls |-> hs.name, kwargs |-> kw.value[1], filters |-> fs.value[1]])

\* The key_prefix that setup_store gives get_handler for the store of depth
\* i: key_prefix + name, where a sub-store's key_prefix already ends with
\* the key that name holds.
handler_key_prefix(i) == IF i = 1 THEN <<"store">> ELSE <<"store", "[a]", "[a]">>

\* The argument keys of a handler, in the order of the settings.
ArgLists ==
    {s \in UNION {[1 .. k -> ArgKeys \X ArgDicts] : k \in 0 .. MaxArgs} :
        \A i, j \in 1 .. Len(s) : s[i][1] = s[j][1] => i = j}

\* The filters[N] keys of a handler, in the order of the settings.
FilterEntries ==
    {s \in UNION {[1 .. k -> FilterRefs \X FilterDicts] : k \in 0 .. MaxFilters} :
        \A i, j \in 1 .. Len(s) : s[i][1] = s[j][1] => i = j}

\* The settings of the handler of store (depth 1) or of store['a'] (depth
\* 2): a handler with arguments, or a DummyHandler with filters.
HandlerDicts ==
    {[depth |-> dp, name |-> n, args |-> a, filters |-> None] :
        dp \in 1 .. 2, n \in HandlerNames, a \in ArgLists}
    \cup {[depth |-> dp, name |-> "DummyHandler", args |-> <<>>, filters |-> Some(f)] :
             dp \in 1 .. 2, f \in FilterEntries}

HandlerDictInputs == s_in \in HandlerDicts /\ s_out = None

\* get_handler(key_prefix + name, settings_dict['handler']) in setup_store
GetHandler ==
    /\ s_out = None
    /\ s_out' = Some(get_handler_from(handler_key_prefix(s_in.depth), s_in))
    /\ UNCHANGED <<s_in, treeVars, handlerVars>>

\* ----------------------------------------------------------------- Folder

\* The folders of a container: the segments given to store / s1 / ... / sn,
\* none for the container itself.
FolderPaths == {<<>>, << <<"s">>, <<"t">> >>}

\* handler.path and handler.filters of the handler objects.
handler_path(h) == IF h = "h1" THEN h_path ELSE <<>>

handler_filters(h) == IF h = "h1" THEN h_filters ELSE <<>>

\* What a folder operation did: what its caller saw, and the backend's outcome.
Outcome(raised, msg, trace) ==
    [raised |-> raised, msg |-> msg, value |-> None, trace |-> trace,
     saved |-> None, b |-> Backend("None", None)]

\* StorageContainer.handler of a container without handler raises.
no_handler(n) == handler[n] = "None"

\* StorageContainer.async_handler raises unless the container's handler is an
\* AsyncStorageHandlerBase.
no_async_handler(n) == HandlerClass(handler[n]) \notin AsyncClasses

\* Folder.get_item: the folder is a handler whose path is its segments.
folder_get_item(segs, filename, data) ==
    [filename |-> filename, path |-> segs, data |-> data]

\* A _get_subfolder_file_item that leaves the handler's prefix out.
get_subfolder_file_item_no_prefix(n, segs, item) == [item EXCEPT !.path = segs]

\* Folder._get_subfolder_file_item: the handler's path, then the folder's.
get_subfolder_file_item(n, segs, item) ==
    [item EXCEPT !.path = handler_path(handler[n]) \o segs]

\* self._store.sync_handler._save / _exists / _delete (item): h2, the
\* template, has `pass` for each.
sync_handler_call(n, op, item) ==
    IF handler[n] # "h1" THEN Backend("None", None)
    ELSE IF op = "save" THEN handler_save(item)
    ELSE IF op = "exists" THEN handler_exists(item)
    ELSE handler_delete(item)

\* await self._store.async_handler._async_save / _async_exists /
\* _async_delete (item)
async_handler_call(n, op, item) ==
    IF op = "save" THEN handler_async_save(item)
    ELSE IF op = "exists" THEN handler_async_exists(item)
    ELSE handler_async_delete(item)

\* for filter_ in self.filters, with the filters of the container's handler.
folder_filters(n, mode, item) ==
    IF handler[n] = "h1" THEN apply_filters(mode, 1, item, <<>>)
    ELSE [raised |-> "None", item |-> item, trace |-> <<>>]

\* folder.save_file(filename, data) (mode "sync") and
\* await folder.async_save_file(filename, data) (mode "async") of the folder
\* segs of the container n: sanitize, build the item, read the filters of the
\* container's handler, run them, and hand the item, under the handler's path
\* and the folder's, to the handler's _save or _async_save.
folder_save(n, segs, filename, data, mode) ==
    LET sanitized == sanitize_filename(filename)
        p == folder_filters(n, mode, folder_get_item(segs, sanitized, data))
        item == get_subfolder_file_item(n, segs, p.item)
        b == IF mode = "sync" THEN sync_handler_call(n, "save", item)
             ELSE async_handler_call(n, "save", item)
    IN  IF no_handler(n)
        THEN Outcome("FilestorageConfigError", "No handler provided for store", <<>>)
        ELSE IF p.raised # "None" THEN Outcome(p.raised, "", p.trace)
        ELSE IF mode = "async" /\ no_async_handler(n)
        THEN Outcome("FilestorageConfigError",
                     "No async handler provided for store", p.trace)
        ELSE [raised |-> b.raised, msg |-> "",
              value |-> IF b.raised # "None" THEN None
                        ELSE IF mode = "sync" \/ b.value # None THEN b.value
                        ELSE Some(sanitized),
              trace |-> Append(p.trace, <<"_save", 0, "">>),
              saved |-> Some(item), b |-> b]

\* folder.exists / folder.delete (filename) (mode "sync") and
\* await folder.async_exists / folder.async_delete (filename) (mode "async"):
\* the item, under the handler's path and the folder's, goes to the handler.
folder_call(n, segs, filename, op, mode) ==
    LET item == get_subfolder_file_item(n, segs,
                    folder_get_item(segs, filename, "None"))
        b == IF mode = "sync" THEN sync_handler_call(n, op, item)
             ELSE async_handler_call(n, op, item)
    IN  IF no_handler(n)
        THEN Outcome("FilestorageConfigError", "No handler provided for store", <<>>)
        ELSE IF mode = "async" /\ no_async_handler(n)
        THEN Outcome("FilestorageConfigError",
                     "No async handler provided for store", <<>>)
        ELSE [raised |-> b.raised, msg |-> "", value |-> b.value,
              trace |-> << <<op, 0, "">> >>, saved |-> Some(item), b |-> b]

\* A folder operation's outcome o reaches the caller and the backend.
FolderOp(op, n, segs, filename, o) ==
    /\ n \in Nodes
    /\ ret' = [Ret(op, filename) EXCEPT
                  !.raised = o.raised, !.msg = o.msg, !.value = o.value,
                  !.trace = o.trace, !.saved = o.saved, !.backend = o.b.value,
                  !.folder = Some([node |-> n, segs |-> segs])]
    /\ Commit(o.b)
    /\ UNCHANGED <<tasks, handlerConfig, h_allow_sync, h_filters, h_validated>>
    /\ UNCHANGED <<treeVars, sanitizeVars>>

\* (store / s1 / ... / sn).save_file(filename, data), store the container n
FolderSaveFile(n, segs, filename, data) ==
    /\ Cardinality(files) < MaxFolderFiles
    /\ FolderOp("save_file", n, segs, filename, folder_save(n, segs, filename, data, "sync"))

\* await (store / s1 / ... / sn).async_save_file(filename, data)
FolderAsyncSaveFile(n, segs, filename, data) ==
    /\ Cardinality(files) < MaxFolderFiles
    /\ FolderOp("async_save_file", n, segs, filename,
                folder_save(n, segs, filename, data, "async"))

\* (store / s1 / ... / sn).exists(filename)
FolderExists(n, segs, filename) ==
    /\ segs \in FolderPaths
    /\ FolderOp("exists", n, segs, filename, folder_call(n, segs, filename, "exists", "sync"))

\* await (store / s1 / ... / sn).async_exists(filename)
FolderAsyncExists(n, segs, filename) ==
    /\ segs \in FolderPaths
    /\ FolderOp("async_exists", n, segs, filename,
                folder_call(n, segs, filename, "exists", "async"))

\* (store / s1 / ... / sn).delete(filename)
FolderDelete(n, segs, filename) ==
    /\ segs \in FolderPaths
    /\ FolderOp("delete", n, segs, filename, folder_call(n, segs, filename, "delete", "sync"))

\* await (store / s1 / ... / sn).async_delete(filename)
FolderAsyncDelete(n, segs, filename) ==
    /\ segs \in FolderPaths
    /\ FolderOp("async_delete", n, segs, filename,
                folder_call(n, segs, filename, "delete", "async"))

\* The base_url of the handler objects: h1 is built with the base_url of
\* test_subfolder_get_url, h2 with none.
base_url(h) == IF h = "h1" THEN <<"http://foo.bar">> ELSE <<>>

\* urllib.parse.urljoin(base, url) of a base without a path and a relative
\* url.
urljoin(base, url) ==
    IF base = <<>> THEN url
    ELSE IF url = <<>> THEN base
    ELSE base \o <<"/">> \o url

\* StorageHandlerBase.get_url on a folder: get_item with the folder's path,
\* then base_url, which the container's handler provides.
folder_get_url(n, segs, filename) ==
    IF no_handler(n)
    THEN Outcome("FilestorageConfigError", "No handler provided for store", <<>>)
    ELSE [Outcome("None", "", <<>>) EXCEPT
             !.value = Some(urljoin(base_url(handler[n]),
                                    url_path(folder_get_item(segs, filename, "None"))))]

\* (store / s1 / ... / sn).get_url(filename)
FolderGetUrl(n, segs, filename) ==
    /\ segs \in FolderPaths
    /\ FolderOp("get_url", n, segs, filename, folder_get_url(n, segs, filename))

\* ------------------------------------------------------ the specifications

\* The configuration of a container tree.
Init == TreeInit /\ HandlerIdle /\ SanitizeIdle

Next ==
    \/ \E n \in NodeIds, v \in HandlerValues : SetHandler(n, v)
    \/ \E n \in NodeIds : SetDoNotUse(n)
    \/ \E n \in NodeIds : FinalizeConfig(n)
    \/ \E n \in NodeIds, key \in Keys : GetItem(n, key)

Spec == Init /\ [][Next]_vars

\* The saves of one handler, built with any filter list and path prefix.
SaveInit == TreeInit /\ HandlerInit /\ SanitizeIdle

SaveNext ==
    \/ \E f \in SaveNames, d \in Datas : SaveFile(f, d)
    \/ \E f \in SaveNames, d \in Datas : AsyncSaveFile(f, d)
    \/ \E f \in FilterClasses : AppendFilter(f)

SaveSpec == SaveInit /\ [][SaveNext]_vars

\* The files of one handler: saves, lookups and deletions in any order.
FileNext ==
    \/ \E f \in SaveNames : SaveFile(f, "x")
    \/ \E f \in SaveNames : AsyncSaveFile(f, "x")
    \/ \E f \in StoredNames : Exists(f)
    \/ \E f \in StoredNames : AsyncExists(f)
    \/ \E f \in StoredNames : Delete(f)
    \/ \E f \in StoredNames : AsyncDelete(f)

FileSpec == SaveInit /\ [][FileNext]_vars

\* The validation of one handler, whose filter list may have been extended.
ValidateNext ==
    \/ Validate
    \/ \E f \in FilterClasses : AppendFilter(f)

ValidateSpec == SaveInit /\ [][ValidateNext]_vars

\* The global store; setup_from_settings and finalize_config, as includeme
\* calls them.
ConfigNext ==
    \/ \E s \in Settings : SetupFromSettings(s)
    \/ FinalizeConfig(Root)

ConfigSpec == Init /\ [][ConfigNext]_vars

\* The settings of one handler, and get_handler on them.
GetHandlerInit == TreeInit /\ HandlerIdle /\ HandlerDictInputs

GetHandlerNext == GetHandler

GetHandlerSpec == GetHandlerInit /\ [][GetHandlerNext]_vars

\* A local handler without filters, with or without a path prefix, and the
\* saves of one filename with an extension.
LocalSaveInit == SaveInit /\ h_class \in LocalClasses /\ h_filters = <<>>

SameName == <<"a", ".", "f">>

LocalSaveNext ==
    \/ \E d \in Datas : SaveFile(SameName, d)
    \/ \E d \in Datas : AsyncSaveFile(SameName, d)

LocalSaveSpec == LocalSaveInit /\ [][LocalSaveNext]_vars

\* A dummy handler and the lookups and deletions of names that hold a
\* separator or are the parent directory, next to the saves.
PathInit == SaveInit /\ h_class \in DummyClasses

PathNames == {<<".", ".">>, <<".", ".", "/", "a">>, <<"a", "\\", "a">>, <<"f">>}

PathNext ==
    \/ \E f \in SaveNames : SaveFile(f, "x")
    \/ \E f \in SaveNames : AsyncSaveFile(f, "x")
    \/ \E f \in PathNames : Exists(f)
    \/ \E f \in PathNames : AsyncExists(f)
    \/ \E f \in PathNames : Delete(f)
    \/ \E f \in PathNames : AsyncDelete(f)

PathSpec == PathInit /\ [][PathNext]_vars

\* A container whose handler h1 is of any class, with or without a filter of
\* async_ok false and a path prefix; base_path and the prefix's directory exist.
StoreHandlerInit ==
    /\ h_class \in HandlerClasses
    /\ h_allow_sync \in (IF h_class \in AsyncClasses THEN BOOLEAN ELSE {TRUE})
    /\ h_filters \in {<<>>, <<"MockFilter-1">>}
    /\ h_path = << <<"p">> >>
    /\ h_auto_make_dir = (h_class \in LocalClasses)
    /\ h_aiofiles = TRUE
    /\ h_validated = FALSE
    /\ tasks = NoTasks
    /\ files = {}
    /\ dirs = (IF h_class \in LocalClasses THEN makedirs(h_path) ELSE {})
    /\ created_dirs = {}
    /\ last_save = None
    /\ last_delete = None
    /\ ret = Ret("init", <<>>)

\* store = StorageContainer(), alone or after store['a']['b'].
StoreTreeInit ==
    /\ nnodes \in {1, MaxNodes}
    /\ name = [n \in NodeIds |->
                  IF n = Root \/ n >= nnodes THEN "None"
                  ELSE IF n = 1 THEN "a" ELSE "b"]
    /\ parent = [n \in NodeIds |-> IF n = Root \/ n >= nnodes THEN NoNode ELSE n - 1]
    /\ children = [n \in NodeIds |-> IF n + 1 < nnodes THEN <<n + 1>> ELSE <<>>]
    /\ handler = [n \in NodeIds |-> "None"]
    /\ do_not_use = [n \in NodeIds |-> FALSE]
    /\ finalized = [n \in NodeIds |-> FALSE]
    /\ handler_name = [h \in Handlers |-> "None"]
    /\ validate_calls = [h \in Handlers |-> 0]
    /\ last = [op |-> IF nnodes = 1 THEN "init" ELSE "getitem", raised |-> NoError]

StoreInit == StoreTreeInit /\ StoreHandlerInit /\ SanitizeIdle

\* The filename given to the folders' saves, and the name it is stored under.
FolderNames == {<<".", "f", "/">>}

FolderStoredNames == {<<"f", "_">>}

\* store and store['a']['b']
StoreNodes == {Root, MaxNodes - 1}

\* store.handler = h1; store.finalize_config(); and the operations of the
\* folders of store and store['a']['b'].
StoreNext ==
    \/ SetHandler(Root, "h1")
    \/ FinalizeConfig(Root)
    \/ \E n \in StoreNodes : \E segs \in FolderPaths : \E f \in FolderNames :
           FolderSaveFile(n, segs, f, "x")
    \/ \E n \in StoreNodes : \E segs \in FolderPaths : \E f \in FolderNames :
           FolderAsyncSaveFile(n, segs, f, "x")
    \/ \E n \in StoreNodes : \E segs \in FolderPaths : \E f \in FolderStoredNames :
           FolderExists(n, segs, f)
    \/ \E n \in StoreNodes : \E segs \in FolderPaths : \E f \in FolderStoredNames :
           FolderAsyncExists(n, segs, f)
    \/ \E n \in StoreNodes : \E segs \in FolderPaths : \E f \in FolderStoredNames :
           FolderDelete(n, segs, f)
    \/ \E n \in StoreNodes : \E segs \in FolderPaths : \E f \in FolderStoredNames :
           FolderAsyncDelete(n, segs, f)

StoreSpec == StoreInit /\ [][StoreNext]_vars

\* A container whose handler h1 is a dummy handler without filters, with
\* or without a path prefix; the saves and the URLs of its folders.
UrlHandlerInit == HandlerInit /\ h_class \in DummyClasses /\ h_filters = <<>>

UrlInit == StoreTreeInit /\ UrlHandlerInit /\ SanitizeIdle

UrlNext ==
    \/ SetHandler(Root, "h1")
    \/ FinalizeConfig(Root)
    \/ \E n \in StoreNodes : \E segs \in FolderPaths : \E f \in FolderNames :
           FolderSaveFile(n, segs, f, "x")
    \/ \E n \in StoreNodes : \E segs \in FolderPaths : \E f \in FolderStoredNames :
           FolderGetUrl(n, segs, f)

UrlSpec == UrlInit /\ [][UrlNext]_vars

\* An AsyncLocalFileHandler without filters and two coroutines that save
\* the same filename, taking turns at the awaits.
ConcurrentInit ==
    SaveInit /\ h_class = "AsyncLocalFileHandler" /\ h_filters = <<>>

ConcurrentNext ==
    \/ \E t \in Tasks, d \in Datas : AsyncSaveStart(t, SameName, d)
    \/ \E t \in Tasks : AsyncResolveStep(t)
    \/ \E t \in Tasks : AsyncOpenStep(t)
    \/ \E t \in Tasks : AsyncWriteStep(t)

ConcurrentSpec == ConcurrentInit /\ [][ConcurrentNext]_vars

\* sanitize_filename on every filename of at most MaxNameLen characters.
SanitizeInit == TreeInit /\ HandlerIdle /\ SanitizeInputs

SanitizeNext == Sanitize

SanitizeSpec == SanitizeInit /\ [][SanitizeNext]_vars

\* ------------------------------------------------ the container's claims

\* The fields of the containers, without the record of the last operation.
tree == <<nnodes, name, parent, children, handler, do_not_use, finalized,
          handler_name, validate_calls>>

\* A node with neither a handler nor do_not_use.
Unconfigured(n) == handler[n] = "None" /\ ~do_not_use[n]

\* C1: assigning a handler raises FilestorageConfigError when the node is
\* finalized, disabled or already has a handler, and then leaves the node's
\* handler, do_not_use and finalized as they were; an assignment succeeds only
\* on a node that is not finalized, not disabled and without a handler.
C1_HandlerAssignedOnce ==
    [][\A n \in NodeIds, v \in HandlerValues :
        SetHandler(n, v) =>
            /\ (finalized[n] \/ do_not_use[n] \/ handler[n] # "None") =>
                   /\ last'.raised.type = "FilestorageConfigError"
                   /\ handler'[n] = handler[n]
                   /\ do_not_use'[n] = do_not_use[n]
                   /\ finalized'[n] = finalized[n]
            /\ last'.raised = NoError =>
                   /\ ~finalized[n] /\ ~do_not_use[n] /\ handler[n] = "None"
                   /\ handler'[n] = v]_vars

\* A second assignment to a node that has a handler has raised, while another
\* node of the tree is disabled.
C1_Witness ==
    /\ last.op = "set_handler"
    /\ last.raised.msg = "handler: handler already set!"
    /\ \E n \in Nodes : handler[n] # "None" /\ container_name(n) = last.raised.at
    /\ \E n \in Nodes : do_not_use[n]

\* No node has both a handler and do_not_use.
NoHandlerOnDisabled == \A n \in NodeIds : ~(handler[n] # "None" /\ do_not_use[n])

\* C2: in every reachable state no node has both a handler and do_not_use, and
\* set_do_not_use raises FilestorageConfigError, changing nothing, on a node
\* that has a handler or is finalized.
C2_HandlerXorDisabled ==
    /\ []NoHandlerOnDisabled
    /\ [][\A n \in NodeIds :
            (SetDoNotUse(n) /\ (handler[n] # "None" \/ finalized[n])) =>
                /\ last'.raised.type = "FilestorageConfigError"
                /\ tree' = tree]_vars

\* set_do_not_use has raised on a node that has a handler.
C2_Witness ==
    /\ last.op = "set_do_not_use"
    /\ last.raised.msg = "set_do_not_use(): a handler is already set!"
    /\ \E n \in Nodes : handler[n] # "None" /\ container_name(n) = last.raised.at

\* No node of the tree is finalized yet, and every handler of the tree
\* validates: the state before the first finalize_config of a configuration
\* in which no validation can fail.
FirstFinalize ==
    \A n \in Nodes :
        /\ ~finalized[n]
        /\ handler[n] # "None" => handler_validate_error(handler[n]) = NoError

\* C3: finalize_config on the root raises "No handler provided for
\* store<address>", naming a node with neither a handler nor do_not_use,
\* whenever the tree has such a node, and returns only when it has none
\* (here for the first finalize_config of a tree whose handlers validate).
C3_FinalizeRejectsUnconfigured ==
    [][(FinalizeConfig(Root) /\ FirstFinalize) =>
        /\ (\E n \in Nodes : Unconfigured(n)) =>
               /\ last'.raised.type = "FilestorageConfigError"
               /\ last'.raised.msg = "No handler provided for store"
               /\ \E n \in Nodes :
                      Unconfigured(n) /\ last'.raised.at = container_name(n)
        /\ last'.raised = NoError => \A n \in Nodes : ~Unconfigured(n)]_vars

\* C4: when finalize_config on the root returns, every container of the tree
\* is finalized and every handler attached to a node has been validated
\* (here for the first finalize_config of a tree whose handlers validate).
C4_FinalizeReachesAll ==
    [][(FinalizeConfig(Root) /\ FirstFinalize /\ last'.raised = NoError) =>
        \A n \in Nodes :
            /\ finalized'[n]
            /\ handler[n] # "None" => validate_calls'[handler[n]] >= 1]_vars

\* finalize_config on a finalized node changes no field of any container and
\* calls no validate.
FinalizeIdempotent ==
    [][\A n \in NodeIds : (FinalizeConfig(n) /\ finalized[n]) =>
           (tree' = tree /\ last'.raised = NoError)]_vars

\* C5 as stated: finalize_config is idempotent, and each handler's validate
\* is called at most once.
C5_ValidateOncePerHandler ==
    /\ [](\A h \in Handlers : validate_calls[h] <= 1)
    /\ FinalizeIdempotent

\* C5, amended: finalize_config is idempotent, and a handler's validate is
\* called at most once for each finalized node the handler is attached to.
C5_ValidateOncePerNode ==
    /\ [](\A h \in Handlers :
            validate_calls[h] <=
                Cardinality({n \in Nodes : handler[n] = h /\ finalized[n]}))
    /\ FinalizeIdempotent

\* finalize_config has just returned at once on the finalized root: the first
\* call validated the root's handler and raised at the unconfigured child, so
\* only a repeated call returns without an error here.
C5_Witness ==
    /\ last.op = "finalize_config"
    /\ last.raised = NoError
    /\ finalized[Root]
    /\ handler[Root] = "h1"
    /\ validate_calls["h1"] = 1
    /\ \E n \in Nodes : Unconfigured(n) /\ finalized[n]

\* No finalize_config call on the tree has raised: a raising call leaves the
\* node it raised at finalized, without a handler or with the handler whose
\* validation failed, and neither can change afterwards.
NoFailedFinalize ==
    \A n \in Nodes :
        finalized[n] =>
            \/ do_not_use[n]
            \/ handler[n] # "None" /\ handler_validate_error(handler[n]) = NoError

\* C6: once finalize_config has completed on a node, a lookup of a key the
\* node has no child for raises FilestorageConfigError and adds no child;
\* a lookup of a key the node has a child for returns that child and leaves
\* the children as they are.
C6_ChildrenFrozen ==
    [][\A n \in NodeIds, key \in Keys :
        GetItem(n, key) =>
            /\ (finalized[n] /\ NoFailedFinalize /\ child_of(n, key) = NoNode) =>
                   /\ last'.raised.type = "FilestorageConfigError"
                   /\ children' = children
                   /\ nnodes' = nnodes
            /\ child_of(n, key) # NoNode =>
                   UNCHANGED <<nnodes, name, parent, children>>]_vars

\* ------------------------------------------------- the saves of a handler

SaveOps == {"save_file", "async_save_file"}

MockFilters == {"MockFilter-1", "MockFilter-2"}

\* C7: with two filters that each append their id to the filename, taken in
\* either order, and usable by the calling convention (async_save_file needs
\* async_ok filters), a save hands the backend the record named
\* sanitized-name + first id + second id: with [A, B] name-1-2, with [B, A]
\* name-2-1.
C7_FiltersInListOrder ==
    (/\ ret.op \in SaveOps
     /\ Len(h_filters) = 2
     /\ \A i \in 1 .. 2 : h_filters[i] \in MockFilters
     /\ ret.op = "async_save_file" =>
            \A i \in 1 .. 2 : filter_async_ok(h_filters[i]))
    => /\ ret.raised = "None"
       /\ ret.saved # None
       /\ ret.saved[1].filename =
              sanitize_filename(ret.arg) \o filter_id(h_filters[1])
                  \o filter_id(h_filters[2])

\* The index of the filter that raised in a trace, 0 when none did.
raised_at(trace) ==
    LET at == {k \in 1 .. Len(trace) : trace[k][1] = "raise"}
    IN  IF at = {} THEN 0 ELSE trace[CHOOSE k \in at : TRUE][2]

\* C8: when the i-th filter raises during save_file or async_save_file, the
\* calls made are exactly those of filters 1 .. i, the raise is the last
\* event, the backend's save is not invoked, the stored files and last_save
\* are as before, and the caller sees the filter's exception.
C8_RaisingFilterAbortsSave ==
    [][\A f \in SaveNames, d \in Datas :
         ((SaveFile(f, d) \/ AsyncSaveFile(f, d)) /\ raised_at(ret'.trace) # 0) =>
             LET i == raised_at(ret'.trace)
                 tr == ret'.trace
             IN  /\ Len(tr) = i + 1
                 /\ \A k \in 1 .. i : tr[k] = <<"call", k, "">>
                 /\ tr[i + 1][1] = "raise"
                 /\ ret'.raised = tr[i + 1][3]
                 /\ ret'.raised # "None"
                 /\ ret'.saved = None
                 /\ files' = files
                 /\ last_save' = last_save]_vars

\* A save that a filter's exception aborted, on a handler with two filters
\* that already stores a file.
C8_Witness ==
    /\ ret.op \in SaveOps
    /\ Len(h_filters) = 2
    /\ raised_at(ret.trace) # 0
    /\ ret.raised # "None"
    /\ ret.saved = None
    /\ files # {}

\* C9: a save that returns gives the caller the filename the backend's save
\* returned, or, when the backend returned None, the filename of the record
\* handed to the backend.
C9_ReturnsFinalName ==
    (ret.op \in SaveOps /\ ret.raised = "None") =>
        ret.value = IF ret.backend # None THEN ret.backend
                    ELSE Some(ret.saved[1].filename)

\* ------------------------------------------------------ sanitize_filename

has_dotdot(s) == \E i \in 1 .. (Len(s) - 1) : s[i] = "." /\ s[i + 1] = "."

has_separator(s) == \E i \in 1 .. Len(s) : s[i] \in {"/", "\\"}

\* C10 as stated: the result of sanitize_filename has no ".." in it, does not
\* start with "." and has neither "/" nor "\".
C10_NoTraversalSequence ==
    s_out # None =>
        /\ ~has_dotdot(s_out[1])
        /\ (s_out[1] = <<>> \/ s_out[1][1] # ".")
        /\ ~has_separator(s_out[1])

\* C10, amended: the result of sanitize_filename does not start with "." and
\* has neither "/" nor "\"; its characters are those of the input without
\* its leading dots, each kept when alphanumeric, "." or "_" and "_" otherwise.
C10_NoLeadingDotNoSeparator ==
    s_out # None =>
        /\ (s_out[1] = <<>> \/ s_out[1][1] # ".")
        /\ ~has_separator(s_out[1])
        /\ \A i \in 1 .. Len(s_out[1]) : s_out[1][i] \in AlNum \cup {".", "_"}
        /\ Len(s_out[1]) <= Len(s_in)

\* "../a" sanitized to "_a".
C10_Witness ==
    /\ s_in = <<".", ".", "/", "a">>
    /\ s_out = Some(<<"_", "a">>)

\* --------------------------------------------------- the files of a handler

\* The handler classes that store files.
StoringClasses == DummyClasses \cup LocalClasses

\* The backend stores a file under the name n of the handler's path prefix.
StoredNow(n) == \E r \in files : r.key = url_path(get_item(n, "None"))

\* C11: on a handler of the four storing classes, delete and async_delete of
\* a filename that is not stored raise nothing and leave the handler's files
\* and fields as they were (a blocking delete that allow_sync_methods refuses
\* set aside).
C11_DeleteAbsentIsNoError ==
    [][\A f \in StoredNames :
         (/\ (Delete(f) /\ ~sync_refused) \/ AsyncDelete(f)
          /\ h_class \in StoringClasses
          /\ ~StoredNow(f))
         => (ret'.raised = "None" /\ handlerStore' = handlerStore)]_vars

\* C12: on a handler of a storing class without filters, no file is stored at
\* first; a save that returns n makes n stored and changes no other name; a
\* delete of n that returns makes n not stored and changes no other name; an
\* operation that raises and an exists change no name; and exists(n),
\* blocking or async, returns whether n is stored.  Hence exists(n) is true
\* exactly when the last save or delete of n was a save.
C12_ExistsFollowsSaveAndDelete ==
    /\ [](ret.op = "init" => files = {})
    /\ [][(h_class \in StoringClasses /\ h_filters = <<>>) =>
            /\ (ret'.op \in {"save_file", "async_save_file"} /\ ret'.raised = "None")
                   => /\ ret'.value # None
                      /\ \A n \in StoredNames :
                             StoredNow(n)' = (n = ret'.value[1] \/ StoredNow(n))
            /\ (ret'.op \in {"delete", "async_delete"} /\ ret'.raised = "None")
                   => \A n \in StoredNames :
                          StoredNow(n)' = (n # ret'.arg /\ StoredNow(n))
            /\ ret'.raised # "None"
                   => \A n \in StoredNames : StoredNow(n)' = StoredNow(n)
            /\ ret'.op \in {"exists", "async_exists"}
                   => /\ \A n \in StoredNames : StoredNow(n)' = StoredNow(n)
                      /\ ret'.raised = "None"
                             => ret'.value = Some(StoredNow(ret'.arg))]_vars

\* exists has just returned false for a name that was saved and then deleted.
C12_Witness ==
    /\ h_filters = <<>>
    /\ ret.op \in {"exists", "async_exists"}
    /\ ret.value = Some(FALSE)
    /\ last_save # None /\ last_save[1].filename = ret.arg
    /\ last_delete # None /\ last_delete[1].filename = ret.arg
    /\ files # {}

\* A blocking entry point of an async handler with allow_sync_methods off
\* raises RuntimeError and leaves the files and fields as they were.
BlockingRefused(step) ==
    (step /\ sync_refused) =>
        /\ ret'.raised = "RuntimeError"
        /\ handlerStore' = handlerStore

C14_AsyncValidateRejectsSyncFilter ==
    [][(/\ Validate
        /\ h_class \in AsyncClasses
        /\ \E i \in 1 .. Len(h_filters) : ~filter_async_ok(h_filters[i]))
       => /\ ret'.raised = "FilestorageConfigError"
          /\ ret'.msg = "cannot be used in asynchronous storage handler"
          /\ ret'.trace = <<>>]_vars

\* ------------------------------------------------ the folders of a container

\* The container's handler is blocking-only and owns a filter that is not
\* async_ok.
BlockingWithSyncFilter ==
    /\ handler[Root] = "h1"
    /\ h_class \notin AsyncClasses
    /\ \E i \in 1 .. Len(h_filters) : ~filter_async_ok(h_filters[i])

\* C15: a blocking-only handler that owns a filter with async_ok false, set on
\* a container (whose async_save_file reaches it), is rejected when it is
\* validated: the finalize_config that validates it raises.
C15_BlockingHandlerWithSyncFilterRejected ==
    [][(FinalizeConfig(Root) /\ BlockingWithSyncFilter /\ ~finalized[Root])
          => last'.raised # NoError]_vars

\* The step's caller and the stored files got what the outcome o holds.
SameAs(o) ==
    /\ ret'.raised = o.raised
    /\ ret'.value = o.value
    /\ files' = o.b.files

\* C16: on a container whose handler does not refuse the blocking methods,
\* each async operation of a folder (save, exists, delete) ends as the
\* blocking operation would have in the same state, for a blocking-only
\* handler too, and each blocking operation as the async one would have.
C16_BlockingAndAsyncAgree ==
    [][\A n \in Nodes : \A segs \in FolderPaths :
          (~no_handler(n) /\ ~sync_refused) =>
              /\ \A f \in FolderNames :
                    /\ FolderAsyncSaveFile(n, segs, f, "x")
                          => SameAs(folder_save(n, segs, f, "x", "sync"))
                    /\ FolderSaveFile(n, segs, f, "x")
                          => SameAs(folder_save(n, segs, f, "x", "async"))
              /\ \A f \in FolderStoredNames :
                    /\ FolderAsyncExists(n, segs, f)
                          => SameAs(folder_call(n, segs, f, "exists", "sync"))
                    /\ FolderExists(n, segs, f)
                          => SameAs(folder_call(n, segs, f, "exists", "async"))
                    /\ FolderAsyncDelete(n, segs, f)
                          => SameAs(folder_call(n, segs, f, "delete", "sync"))
                    /\ FolderDelete(n, segs, f)
                          => SameAs(folder_call(n, segs, f, "delete", "async"))]_vars

\* folder.exists(filename), or await folder.async_exists(filename) on a
\* handler of an async class, reports the file.
reported(n, segs, filename) ==
    folder_call(n, segs, filename, "exists",
                IF no_async_handler(n) THEN "sync" ELSE "async").value = Some(TRUE)

\* The operation handed the backend a record with the path of the handler,
\* then the segments, and the filename.
BackendGot(r, filename) ==
    r.saved # None =>
        /\ r.saved[1].path
              = handler_path(handler[r.folder[1].node]) \o r.folder[1].segs
        /\ r.saved[1].filename = filename

child_keys(n) == [i \in 1 .. Len(container_name(n)) |-> <<container_name(n)[i]>>]

\* An operation of a folder of the container n.
FolderStep(n, segs) ==
    \/ \E f \in FolderNames :
          FolderSaveFile(n, segs, f, "x") \/ FolderAsyncSaveFile(n, segs, f, "x")
    \/ \E f \in FolderStoredNames :
          \/ FolderExists(n, segs, f) \/ FolderAsyncExists(n, segs, f)
          \/ FolderDelete(n, segs, f) \/ FolderAsyncDelete(n, segs, f)

\* C18: an operation on a child container without a handler of its own, under
\* a root that has one, does not fail for the want of a handler: it reaches
\* the root's handler, with the child's keys prepended to the path.
C18_ChildServedByAncestorHandler ==
    [][\A n \in Nodes \ {Root} : \A segs \in FolderPaths :
          (FolderStep(n, segs) /\ handler[n] = "None" /\ handler[Root] = "h1"
             /\ h_filters = <<>> /\ h_class \in DummyClasses /\ h_allow_sync)
             => /\ ret'.raised # "FilestorageConfigError"
                /\ ret'.saved # None
                /\ ret'.saved[1].path = h_path \o child_keys(n) \o segs]_vars

\* ------------------------------------------------------ the settings' claims

\* StorageContainer(), before any configuration.
NewStore ==
    /\ nnodes = 1
    /\ Unconfigured(Root)
    /\ ~finalized[Root]

\* The step is setup_from_settings(s, store) on a new store.
SetupOfNewStore(s) ==
    /\ NewStore
    /\ last'.op = "setup_from_settings"
    /\ ret'.op = "setup_from_settings"
    /\ ret'.arg = s

\* store.finalize_config() would return without an exception.
FinalizeSucceeds ==
    finalize_config(Root, [finalized |-> finalized, calls |-> validate_calls,
                           raised |-> NoError]).raised = NoError

\* C19: setup_from_settings on a new store, with settings that give the
\* handler of one store or more as none, in any letter case, and a
\* DummyHandler to the others, raises nothing; each store given none is then
\* disabled and without a handler, each other store has its handler, and a
\* finalize_config that follows succeeds.
C19_NoneDisablesNode ==
    [][\A s \in Settings :
          (/\ SetupOfNewStore(s)
           /\ \E i \in 1 .. Len(s) : s[i] \in NoneNames
           /\ \A i \in 1 .. Len(s) : s[i] \in NoneNames \cup {"DummyHandler"})
             => /\ last'.raised = NoError
                /\ nnodes' = Len(s)
                /\ \A i \in 1 .. Len(s) :
                      IF s[i] \in NoneNames
                      THEN do_not_use'[i - 1] /\ handler'[i - 1] = "None"
                      ELSE handler'[i - 1] = "h1"
                /\ FinalizeSucceeds']_vars

\* C20: setup_from_settings on a new store returns False without raising
\* when the settings have no key under the prefix, and then leaves the store
\* without a handler and not finalized; it returns True when it set the
\* store up.
C20_NoSettingsReturnsFalse ==
    [][\A s \in Settings :
          SetupOfNewStore(s) =>
             /\ s = <<>> =>
                   /\ ret'.raised = "None"
                   /\ ret'.value = Some(FALSE)
                   /\ handler'[Root] = "None"
                   /\ ~finalized'[Root]
             /\ (s # <<>> /\ ret'.raised = "None") => ret'.value = Some(TRUE)]_vars

\* C21: a setup_from_settings that raises leaves the tree as it was: no
\* container got a handler or do_not_use from the call, and none was added.
C21_FailedSetupLeavesTree ==
    [][\A s \in Settings :
          (SetupFromSettings(s) /\ last'.raised # NoError)
             => UNCHANGED <<handler, do_not_use, handler_name, nnodes, children>>]_vars

\* The dotted keys of the settings s of a handler: the handler key, its
\* argument keys, its filters[N] keys and their argument keys.
EntityKeys(s) ==
    LET store == IF s.depth = 1 THEN <<"store">> ELSE <<"store", "[a]">>
        h == Append(store, "handler")
        fs == IF s.filters = None THEN <<>> ELSE s.filters[1]
    IN  {h} \cup {Append(h, s.args[i][1]) : i \in 1 .. Len(s.args)}
            \cup {h \o <<"filters", fs[i][1]>> : i \in 1 .. Len(fs)}
            \cup {h \o <<"filters", fs[i][1], "extensions">> : i \in 1 .. Len(fs)}

\* C22: when get_handler fails on the settings of a handler, whatever in
\* them is wrong, the exception is a FilestorageConfigError whose message
\* holds a dotted key of these settings.
C22_SettingsErrorsNameTheKey ==
    (s_out # None /\ s_out[1].raised # "None") =>
        /\ s_out[1].raised = "FilestorageConfigError"
        /\ s_out[1].key # None
        /\ s_out[1].key[1] \in EntityKeys(s_in)

\* The integer of the bracket index of a filters[N] key.
filter_index(ref) == int_of(rstrip_bracket(lstrip_bracket(ref)))

\* get_handler returned a handler for settings with filters[N] keys.
BuiltWithFilters ==
    /\ s_out # None
    /\ s_out[1].raised = "None"
    /\ s_in.filters # None

\* C23: the filter list of a handler built from the settings holds the
\* filter of each filters[N] key, in ascending order of the integer N, and
\* is the list built from the same keys in any other insertion order.
C23_FiltersInIndexOrder ==
    BuiltWithFilters =>
        LET fs == s_in.filters[1]
            out == s_out[1].value[1].filters
            key == Append(handler_key_prefix(s_in.depth), "handler")
        IN  /\ Len(out) = Len(fs)
            /\ \E p \in Permutations(1 .. Len(fs)) :
                  /\ \A k \in 1 .. Len(fs) :
                        out[k] = get_filter(key \o <<"filters", fs[p[k]][1]>>,
                                            fs[p[k]][2]).value[1]
                  /\ \A k, l \in 1 .. Len(fs) :
                        k < l => filter_index(fs[p[k]][1]) < filter_index(fs[p[l]][1])
            /\ \A q \in Permutations(1 .. Len(fs)) :
                  get_handler_from(handler_key_prefix(s_in.depth),
                      [s_in EXCEPT !.filters = Some([k \in 1 .. Len(fs) |-> fs[q[k]]])])
                     = s_out[1]

\* filters[10], then filters[2], gave the filter of [2] before that of [10].
C23_Witness ==
    /\ BuiltWithFilters
    /\ Len(s_in.filters[1]) = 2
    /\ s_in.filters[1][1][1] = <<"[", "1", "0", "]">>
    /\ s_in.filters[1][2][1] = <<"[", "2", "]">>
    /\ s_in.filters[1][1][2].name = Some("RandomizeFilename")
    /\ s_out[1].value[1].filters[1].cls = "ValidateExtension"
    /\ s_out[1].value[1].filters[2].cls = "RandomizeFilename"

\* ------------------------------------------------- the local files' claims

\* The name of the k-th save of SameName, counted from 0.
numbered(k) ==
    IF k = 0 THEN SameName ELSE <<"a", "-">> \o decimal(k) \o <<".", "f">>

\* C24: on a local handler, the save of the same filename that follows k
\* successful ones returns the name with -k before the extension (the name
\* itself for k = 0), writes a file that did not exist, and leaves every
\* file written before as it was.
C24_SameNameSavesAreNumbered ==
    [][(ret'.op \in {"save_file", "async_save_file"} /\ ret'.raised = "None")
          => /\ ret'.value = Some(numbered(Cardinality(files)))
             /\ \A r \in files : r \in files'
             /\ \E r \in files' \ files :
                   /\ files' = files \cup {r}
                   /\ r.key = url_path(get_item(numbered(Cardinality(files)), "None"))
                   /\ \A old \in files : old.key # r.key]_vars

\* The third save of the name returned a-2.f, next to a.f and a-1.f with the
\* contents their saves gave them.
C24_Witness ==
    /\ ret.op \in {"save_file", "async_save_file"}
    /\ ret.value = Some(numbered(2))
    /\ Cardinality(files) = 3
    /\ \E r \in files : r.key = url_path(get_item(numbered(0), "None")) /\ r.contents = "x"
    /\ \E r \in files : r.key = url_path(get_item(numbered(1), "None")) /\ r.contents = "y"

\* C25: a validate() that returns, on a handler of any class, has called
\* filter_.validate() on every filter the handler owns, and the backend's own
\* validation.
C25_ValidateCallsEveryFilter ==
    [][(Validate /\ ret'.raised = "None")
          => /\ \A i \in 1 .. Len(h_filters) :
                   \E j \in 1 .. Len(ret'.trace) :
                       ret'.trace[j] = <<"filter.validate", i, "">>
             /\ \/ h_class \in LocalClasses
                \/ \E j \in 1 .. Len(ret'.trace) :
                       ret'.trace[j] = <<"_validate", 0, "">>]_vars

\* C26: every container whose finalized flag is set has a handler or is
\* marked do_not_use: a finalize_config that raises for a node without a
\* handler leaves the node's flag off.
C26_FinalizedNodesAreConfigured ==
    \A n \in Nodes : finalized[n] => (handler[n] # "None" \/ do_not_use[n])

\* A filename or path segment without a separator that is not the parent
\* directory.
no_traversal(s) ==
    /\ \A i \in 1 .. Len(s) : s[i] \notin {"/", "\\"}
    /\ s # <<".", ".">>

\* C27: the record a save, exists or delete hands to the backend has a
\* filename and path segments without "/" and "\" that are not "..".
C27_BackendRecordsHaveNoTraversal ==
    ret.saved # None =>
        /\ no_traversal(ret.saved[1].filename)
        /\ \A i \in 1 .. Len(ret.saved[1].path) :
               no_traversal(ret.saved[1].path[i])

\* C29: get_url(filename) of a container or folder, for a file saved through
\* it, is the handler's base URL joined with the path the file is stored
\* under: the handler's prefix, the folder's segments, the filename.
C29_UrlIsWhereTheSaveStores ==
    [][(ret'.op = "get_url" /\ ret'.raised = "None")
          => \A fo \in {ret'.folder[1]} : \A f \in {ret'.arg} :
                reported(fo.node, fo.segs, f)
                   => \E r \in files :
                         /\ r.key = url_path(get_subfolder_file_item(
                                       fo.node, fo.segs,
                                       folder_get_item(fo.segs, f, "None")))
                         /\ ret'.value
                               = Some(urljoin(base_url(handler[fo.node]), r.key))]_vars

\* C30: validate() of an AsyncLocalFileHandler leaves allow_sync_methods as
\* it was, whether it returns or raises.
C30_ValidateKeepsAllowSyncMethods ==
    [][(Validate /\ h_class = "AsyncLocalFileHandler")
          => h_allow_sync' = h_allow_sync]_vars

\* C28: two async_save_file calls of the same filename on one
\* AsyncLocalFileHandler, interleaved at their awaits, return two distinct
\* filenames, and each one's file holds its own data.
C28_ConcurrentSavesKeepBothFiles ==
    \A t1, t2 \in Tasks :
        (/\ t1 # t2
         /\ tasks[t1].pc = "done" /\ tasks[t1].value # None
         /\ tasks[t2].pc = "done" /\ tasks[t2].value # None)
        => /\ tasks[t1].value # tasks[t2].value
           /\ \E r \in files : /\ r.key = url_path(tasks[t1].item[1])
                               /\ r.contents = tasks[t1].item[1].data

====
